---------------------------- MODULE Spec2Model ----------------------------
(***************************************************************************)
(* MySQL slow-log analyzer (src/slowLogAnalyzer.js).                       *)
(*                                                                         *)
(* A string is a sequence of one-character strings, so that startsWith,    *)
(* includes, the regular expressions and cleanUpQuery are computed on the  *)
(* characters as the JavaScript does.  A JavaScript value that may be      *)
(* undefined or NaN is a tagged record (Num, Undefined, NaN).  A finite    *)
(* number is counted in tenths and keeps Precision significant decimal     *)
(* digits, rounding half to even, where binary64 keeps 53 significant      *)
(* bits: sums round, and rounding is not associative.                      *)
(***************************************************************************)
EXTENDS Integers, Sequences, FiniteSets, TLC

VARIABLES
    cloudwatchFormat,   \* line 26: process.argv[2] === "--cloudwatch-format"
    logVocabulary,      \* the distinct lines the log file is made of (input)
    queryToTimingsMap,  \* line 37: Map, as the sequence of its values in insertion order
    currentTiming,      \* line 39: the entry being accumulated
    pc,                 \* "reading", "crashed" (uncaught TypeError), "done" (end event handled)
    timingsCSV,         \* rows written to query-timings-mysql.csv
    connectionsCSV,     \* rows written to connections-mysql.csv
    committed,          \* history: the entries merged at boundaries, in order
    bodyLines           \* history: number of query body lines appended so far

vars == <<cloudwatchFormat, logVocabulary, queryToTimingsMap, currentTiming, pc,
          timingsCSV, connectionsCSV, committed, bodyLines>>

---------------------------------------------------------------------------
(* Bounds of the model *)

\* Query body lines a log file holds.
MaxBodyLines == 3

\* The longest raw query text of SpecNormalize.
MaxTextLength == 3

\* Significant decimal digits a number keeps.
Precision == 2

---------------------------------------------------------------------------
(* Strings *)

Max(S) == CHOOSE x \in S : \A y \in S : y <= x

Min(S) == CHOOSE x \in S : \A y \in S : x <= y

\* String.prototype.startsWith
StartsWith(s, p) == Len(s) >= Len(p) /\ SubSeq(s, 1, Len(p)) = p

\* String.prototype.endsWith
EndsWith(s, p) == Len(s) >= Len(p) /\ SubSeq(s, Len(s) - Len(p) + 1, Len(s)) = p

\* String.prototype.includes
Includes(s, p) == \E i \in 1..(Len(s) - Len(p) + 1) : SubSeq(s, i, i + Len(p) - 1) = p

\* String.prototype.substring(from, to), 0-based, arguments clamped to 0..length
Substring(s, from, to) ==
    LET clamp(n) == IF n < 0 THEN 0 ELSE IF n > Len(s) THEN Len(s) ELSE n
        a == Min({clamp(from), clamp(to)})
        b == Max({clamp(from), clamp(to)})
    IN  SubSeq(s, a + 1, b)

Digits == {"0", "1", "2", "3", "4", "5", "6", "7", "8", "9"}

DigitValue(c) ==
    CASE c = "0" -> 0 [] c = "1" -> 1 [] c = "2" -> 2 [] c = "3" -> 3 [] c = "4" -> 4
      [] c = "5" -> 5 [] c = "6" -> 6 [] c = "7" -> 7 [] c = "8" -> 8 [] c = "9" -> 9

\* The characters a regular-expression atom accepts.
InClass(c, class) ==
    CASE class = "[0-9]"  -> c \in Digits
      [] class = "[0-9.]" -> c \in Digits \cup {"."}
      [] class = " "      -> c = " "
      [] class = "."      -> c \notin {"\n", "\r"}

\* Length of the longest run of characters of the class that starts at s[i].
RECURSIVE RunLength(_, _, _)
RunLength(s, i, class) ==
    IF i > Len(s) \/ ~InClass(s[i], class) THEN 0 ELSE 1 + RunLength(s, i + 1, class)

\* Value of a string of decimal digits.
RECURSIVE DigitsValue(_)
DigitsValue(s) ==
    IF s = <<>> THEN 0 ELSE 10 * DigitsValue(SubSeq(s, 1, Len(s) - 1)) + DigitValue(s[Len(s)])

RECURSIVE Pow10(_)
Pow10(n) == IF n = 0 THEN 1 ELSE 10 * Pow10(n - 1)

---------------------------------------------------------------------------
(* JavaScript values *)

Num(n) == [t |-> "number", v |-> n]

Undefined == [t |-> "undefined", v |-> 0]

NaN == [t |-> "NaN", v |-> 0]

IsNum(x) == x.t = "number"

\* n / d rounded to the nearest integer, halves to the even one.
RoundDiv(n, d) ==
    LET q == n \div d
        r == n % d
    IN  IF 2 * r < d THEN q
        ELSE IF 2 * r > d THEN q + 1
        ELSE IF q % 2 = 0 THEN q ELSE q + 1

\* Number of decimal digits of n.
RECURSIVE DigitCount(_)
DigitCount(n) == IF n < 10 THEN 1 ELSE 1 + DigitCount(n \div 10)

\* The representable number nearest to n tenths.
Round(n) ==
    IF DigitCount(n) <= Precision THEN n
    ELSE LET ulp == Pow10(DigitCount(n) - Precision)
         IN  RoundDiv(n, ulp) * ulp

\* The + of two values: undefined and NaN operands give NaN.
Add(a, b) == IF IsNum(a) /\ IsNum(b) THEN Num(Round(a.v + b.v)) ELSE NaN

\* The / of a value by a positive integer.
Divide(a, n) == IF IsNum(a) THEN Num(RoundDiv(a.v, n)) ELSE NaN

\* The sign of a - b: -1, 0 or 1, and NaN when an operand is no number.
SubtractSign(a, b) ==
    IF ~(IsNum(a) /\ IsNum(b)) THEN NaN
    ELSE IF a.v < b.v THEN Num(0 - 1) ELSE IF a.v > b.v THEN Num(1) ELSE Num(0)

\* The === of two values: NaN equals nothing.
StrictEquals(a, b) == a.t # "NaN" /\ b.t # "NaN" /\ a = b

\* parseFloat that stops at the decimal point.
parseFloatWholePart(s) ==
    LET d == RunLength(s, 1, "[0-9]")
    IN  IF d = 0 THEN NaN ELSE Num(Round(10 * DigitsValue(SubSeq(s, 1, d))))

\* parseFloat of a string of digits and dots: the longest prefix that is a
\* decimal literal, NaN when there is none.
parseFloat(s) ==
    LET d == RunLength(s, 1, "[0-9]")
        f == IF d < Len(s) /\ s[d + 1] = "." THEN RunLength(s, d + 2, "[0-9]") ELSE 0
        mantissa == DigitsValue(SubSeq(s, 1, d) \o SubSeq(s, d + 2, d + 1 + f))
    IN  IF d = 0 /\ f = 0 THEN NaN
        ELSE Num(Round(RoundDiv(10 * mantissa, Pow10(f))))

\* parseInt of a string that starts with a digit.
parseInt(s) == Num(DigitsValue(SubSeq(s, 1, RunLength(s, 1, "[0-9]"))))

---------------------------------------------------------------------------
(* Regular expressions of the line handler *)

\* A pattern is a sequence of atoms: a literal [lit |-> chars], or a greedy
\* repetition [class |-> c, min |-> n, group |-> b] of at least n characters
\* of a class, capturing when group is TRUE.
Lit(chars) == [lit |-> chars]

Rep(class, min, group) == [class |-> class, min |-> min, group |-> group]

IsLit(atom) == "lit" \in DOMAIN atom

NoMatch == [matched |-> FALSE, groups |-> <<>>]

\* The match of pattern[idx..] at s[pos], a repetition giving back characters
\* (longest first) until the rest of the pattern matches.
RECURSIVE MatchAt(_, _, _, _)
MatchAt(s, pos, pattern, idx) ==
    IF idx > Len(pattern) THEN [matched |-> TRUE, groups |-> <<>>]
    ELSE LET atom == pattern[idx] IN
         IF IsLit(atom)
         THEN IF pos + Len(atom.lit) - 1 <= Len(s)
                 /\ SubSeq(s, pos, pos + Len(atom.lit) - 1) = atom.lit
              THEN MatchAt(s, pos + Len(atom.lit), pattern, idx + 1)
              ELSE NoMatch
         ELSE LET run == RunLength(s, pos, atom.class)
                  try(n) == LET rest == MatchAt(s, pos + n, pattern, idx + 1)
                            IN  [n       |-> n,
                                 matched |-> rest.matched,
                                 groups  |-> IF rest.matched /\ atom.group
                                             THEN <<SubSeq(s, pos, pos + n - 1)>> \o rest.groups
                                             ELSE rest.groups]
                  good == {r \in {try(n) : n \in atom.min..run} : r.matched}
              IN  IF good = {} THEN NoMatch
                  ELSE LET longest == CHOOSE r \in good : \A q \in good : q.n <= r.n
                       IN  [matched |-> TRUE, groups |-> longest.groups]

\* String.prototype.match with a pattern without the g flag: the leftmost match.
Match(s, pattern) ==
    LET try(pos) == [pos |-> pos, result |-> MatchAt(s, pos, pattern, 1)]
        good == {r \in {try(pos) : pos \in 1..(Len(s) + 1)} : r.result.matched}
    IN  IF good = {} THEN NoMatch
        ELSE (CHOOSE r \in good : \A q \in good : r.pos <= q.pos).result

\* The literals of lines 54-93.
TimeMarker == <<"#"," ","T","i","m","e",":">>

QueryTimePrefix == <<"#"," ","Q","u","e","r","y","_","t","i","m","e">>

TimestampPrefix == <<"S","E","T"," ","t","i","m","e","s","t","a","m","p","=">>

ThreadIdPrefix == <<"#"," ","T","h","r","e","a","d","_","i","d",":">>

UserHostPrefix == <<"#"," ","U","s","e","r","@","H","o","s","t">>

NoisePrefixes ==
    { <<"#">>,
      <<"T","c","p"," ","p","o","r","t",":">>,
      <<"u","s","e"," ">>,
      <<"/","*"," ">>,
      <<"/","r","d","s","d","b","b","i","n">>,
      <<"@","t","i","m","e","s","t","a","m","p",",","@","m","e","s","s","a","g","e">>,
      <<"T","i","m","e"," "," "," "," "," "," "," "," "," ">> }

LockTimeLabel == <<"L","o","c","k","_","t","i","m","e",":"," ">>

RowsSentLabel == <<"R","o","w","s","_","s","e","n","t",":"," ">>

RowsExaminedLabel == <<"R","o","w","s","_","e","x","a","m","i","n","e","d",":"," ">>

\* /# Query_time: ([0-9.]+) +Lock_time: ([0-9.]+) +Rows_sent: ([0-9.]+) +Rows_examined: ([0-9.]+)/
QueryTimePattern ==
    << Lit(QueryTimePrefix \o <<":"," ">>),
       Rep("[0-9.]", 1, TRUE), Rep(" ", 1, FALSE), Lit(LockTimeLabel),
       Rep("[0-9.]", 1, TRUE), Rep(" ", 1, FALSE), Lit(RowsSentLabel),
       Rep("[0-9.]", 1, TRUE), Rep(" ", 1, FALSE), Lit(RowsExaminedLabel),
       Rep("[0-9.]", 1, TRUE) >>

\* /SET timestamp=([0-9]+)/
TimestampPattern == << Lit(TimestampPrefix), Rep("[0-9]", 1, TRUE) >>

\* /# Thread_id: *([0-9]+)/
ThreadIdPattern == << Lit(ThreadIdPrefix), Rep(" ", 0, FALSE), Rep("[0-9]", 1, TRUE) >>

\* /# User@Host: .* Id: *([0-9]+)/
UserHostPattern ==
    << Lit(UserHostPrefix \o <<":"," ">>), Rep(".", 0, FALSE), Lit(<<" ","I","d",":">>),
       Rep(" ", 0, FALSE), Rep("[0-9]", 1, TRUE) >>

---------------------------------------------------------------------------
(* cleanUpQuery, lines 107-120 *)

\* NumberMatchLength of the pattern without its sign, /[0-9]*\.?[0-9]+/.
NumberMatchLengthUnsigned(s, i) ==
    LET d == RunLength(s, i, "[0-9]")
        k == i + d
        f == IF k <= Len(s) /\ s[k] = "." THEN RunLength(s, k + 1, "[0-9]") ELSE 0
    IN  IF f > 0 THEN d + 1 + f
        ELSE IF d > 0 THEN d
        ELSE 0

\* Length of the match of /[-+]?[0-9]*\.?[0-9]+/ at s[i], 0 when there is none.
NumberMatchLength(s, i) ==
    LET sign == IF s[i] \in {"-", "+"} THEN 1 ELSE 0
        d    == RunLength(s, i + sign, "[0-9]")
        k    == i + sign + d
        f    == IF k <= Len(s) /\ s[k] = "." THEN RunLength(s, k + 1, "[0-9]") ELSE 0
    IN  IF f > 0 THEN sign + d + 1 + f
        ELSE IF d > 0 THEN sign + d
        ELSE 0

\* replace(/[-+]?[0-9]*\.?[0-9]+/g, "?") from s[i] on
RECURSIVE ReplaceNumbers(_, _)
ReplaceNumbers(s, i) ==
    IF i > Len(s) THEN <<>>
    ELSE LET n == NumberMatchLength(s, i)
         IN  IF n > 0 THEN <<"?">> \o ReplaceNumbers(s, i + n)
             ELSE <<s[i]>> \o ReplaceNumbers(s, i + 1)

\* replace(/'[^']*'/g, "?") from s[i] on
RECURSIVE ReplaceStrings(_, _)
ReplaceStrings(s, i) ==
    IF i > Len(s) THEN <<>>
    ELSE LET closing == {k \in (i + 1)..Len(s) : s[k] = "'"}
         IN  IF s[i] = "'" /\ closing # {}
             THEN <<"?">> \o ReplaceStrings(s, Min(closing) + 1)
             ELSE <<s[i]>> \o ReplaceStrings(s, i + 1)

\* lines 116-118: a trailing double quote goes, with the character before it
TrimTrailingQuote(s) ==
    IF EndsWith(s, <<"\"">>) THEN Substring(s, 0, Len(s) - 2) ELSE s

cleanUpQuery(query) == TrimTrailingQuote(ReplaceStrings(ReplaceNumbers(query, 1), 1))

---------------------------------------------------------------------------
(* The log file: lines the reader hands to the line handler *)

TimeLine == TimeMarker \o <<" ","1">>

QueryTimeLine(queryTime, lockTime) ==
    QueryTimePrefix \o <<":"," ">> \o queryTime \o <<" ">> \o LockTimeLabel \o lockTime
        \o <<" ">> \o RowsSentLabel \o <<"1"," ">> \o RowsExaminedLabel \o <<"1">>

TimestampLine(seconds) == TimestampPrefix \o seconds \o <<";">>

\* A line with the boundary marker inside it, after other text.
InteriorTimeLine == <<"x">> \o TimeMarker

\* A line that starts with a marker prefix and holds the boundary marker too.
ThreadIdTimeLine == ThreadIdPrefix \o <<" ","7"," ">> \o TimeMarker

\* A line that starts with # Query_time and lacks the four fields.
MalformedQueryTimeLine == QueryTimePrefix \o <<":"," ","x">>

\* A well-formed # Thread_id: line.
ThreadIdLine == ThreadIdPrefix \o <<" ","7">>

\* Lines that start with a marker prefix and do not match the marker's
\* pattern: no digit after SET timestamp= or # Thread_id:, no Id: field
\* after # User@Host.
MalformedTimestampLine == TimestampPrefix \o <<"x">>

MalformedThreadIdLine == ThreadIdPrefix \o <<" ","x">>

UserHostLineWithoutId ==
    <<"#"," ","U","s","e","r","@","H","o","s","t",":"," ","r","o","o","t","[","r","o","o","t","]"," ","@"," ","l","o","c","a","l","h","o","s","t"," ","[","]">>

\* Lines of rule 6, one for each prefix of lines 87-93.
NoiseLines ==
    { <<"#"," ","a","d","m","i","n","i","s","t","r","a","t","o","r"," ","c","o","m","m","a","n","d">>,
      <<"T","c","p"," ","p","o","r","t",":"," ","3","3","0","6">>,
      <<"u","s","e"," ","d","b",";">>,
      <<"/","*"," ","c"," ","*","/">>,
      <<"/","r","d","s","d","b","b","i","n","/","m","y","s","q","l","d">>,
      <<"@","t","i","m","e","s","t","a","m","p",",","@","m","e","s","s","a","g","e">>,
      <<"T","i","m","e"," "," "," "," "," "," "," "," "," ","I","d">> }

QueryTimeA == QueryTimeLine(<<"1",".","0">>, <<"0",".","5">>)

QueryTimeB == QueryTimeLine(<<"2",".","0">>, <<"0",".","5">>)

\* The lines of a minimal standard-format log: boundary, User@Host, Query_time,
\* SET timestamp, one body line and the closing boundary.
ExampleTimeLine ==
    <<"#"," ","T","i","m","e",":"," ","2","0","2","3","-","0","1","-","0","1","T","0",
      "0",":","0","0",":","0","0",".","0","0","0","0","0","0","Z">>

ExampleUserHostLine ==
    <<"#"," ","U","s","e","r","@","H","o","s","t",":"," ","u","s","e","r","[","u","s",
      "e","r","]"," ","@"," ","[","1",".","2",".","3",".","4","]"," ","I","d",":"," ",
      "4","2">>

ExampleQueryTimeLine ==
    <<"#"," ","Q","u","e","r","y","_","t","i","m","e",":"," ","1",".","5","0","0","0",
      "0","0"," "," ","L","o","c","k","_","t","i","m","e",":"," ","0",".","2","0","0",
      "0","0","0"," ","R","o","w","s","_","s","e","n","t",":"," ","1"," "," ","R","o",
      "w","s","_","e","x","a","m","i","n","e","d",":"," ","1","0">>

ExampleTimestampLine ==
    <<"S","E","T"," ","t","i","m","e","s","t","a","m","p","=","1","6","7","2","5","3",
      "1","2","0","0",";">>

ExampleQueryLine ==
    <<"S","E","L","E","C","T"," ","*"," ","F","R","O","M"," ","t"," ","W","H","E","R",
      "E"," ","i","d"," ","="," ","5",";">>

ExampleClosingTimeLine ==
    <<"#"," ","T","i","m","e",":"," ","2","0","2","3","-","0","1","-","0","1","T","0",
      "0",":","0","1",":","0","0",".","0","0","0","0","0","0","Z">>

\* The characters of the raw query texts of SpecNormalize: a digit, the dot,
\* a sign, the two quotes and a letter.
TextAlphabet == {"1", ".", "-", "'", "\"", "a"}

\* The raw query texts of SpecNormalize: what the body lines before the
\* boundary line add up to.
Texts == UNION {[1..n -> TextAlphabet] : n \in 1..MaxTextLength}

\* The vocabularies of the log files of Spec.
VocabularyNames ==
    {"sums", "keys", "timestamps", "rounding", "markers", "noise", "malformed"}

\* The vocabularies of the log files of SpecReports: three queries of distinct keys.
ReportVocabularyNames == {"sorting", "buckets"}

\* The vocabulary of the log files of SpecExample: the lines of the minimal log.
ExampleVocabularyNames == {"example"}

\* The vocabulary of the log files of SpecNormalize: the boundary line that
\* follows the text.
NormalizeVocabularyNames == {"texts"}

Vocabulary(name) ==
    CASE name = "sums" ->
            { TimeLine, QueryTimeA, QueryTimeB, <<"a","1">>, <<"a","2">> }
      [] name = "keys" ->
            { TimeLine, QueryTimeA, <<"a","1">>, <<"b">> }
      [] name = "timestamps" ->
            { TimeLine, TimestampLine(<<"5">>), TimestampLine(<<"3">>), <<"a","1">>, <<"b">> }
      [] name = "rounding" ->
            { TimeLine, QueryTimeLine(<<"9",".","5">>, <<"1",".","0">>), <<"a","1">> }
      [] name = "markers" ->
            { TimeLine, InteriorTimeLine, ThreadIdTimeLine, MalformedQueryTimeLine,
              <<"a","1">>, <<"c","\"">> }
      [] name = "sorting" ->
            { TimeLine, QueryTimeA, QueryTimeB, <<"a","1">>, <<"b">>, <<"c">> }
      [] name = "buckets" ->
            { TimeLine, TimestampLine(<<"5">>), TimestampLine(<<"3">>),
              <<"a","1">>, <<"b">>, <<"c">> }
      [] name = "noise" ->
            { TimeLine, QueryTimeA, <<"a","1">>, <<"b">> } \cup NoiseLines
      [] name = "malformed" ->
            { TimeLine, ThreadIdLine, MalformedTimestampLine, MalformedThreadIdLine,
              UserHostLineWithoutId, <<"a","1">> }
      [] name = "example" ->
            { ExampleTimeLine, ExampleUserHostLine, ExampleQueryTimeLine,
              ExampleTimestampLine, ExampleQueryLine, ExampleClosingTimeLine }
      [] name = "texts" ->
            { TimeLine }

---------------------------------------------------------------------------
(* The line handler, lines 45-99 *)

\* EmptyTiming that starts an entry with zero times.
EmptyTimingWithZeroTimes ==
    [count |-> 1, query |-> <<>>, queryTime |-> Num(0), lockTime |-> Num(0),
     totalTime |-> Undefined, unixTimestamp |-> Undefined, connectionId |-> Undefined]

\* line 39 and line 73: {count: 1, query: ""}
EmptyTiming ==
    [count |-> 1, query |-> <<>>, queryTime |-> Undefined, lockTime |-> Undefined,
     totalTime |-> Undefined, unixTimestamp |-> Undefined, connectionId |-> Undefined]

\* IsBoundary that looks for the marker anywhere in both modes.
IsBoundaryAnywhere(line, cloudwatch) == Includes(line, TimeMarker)

\* line 54
IsBoundary(line, cloudwatch) ==
    IF cloudwatch THEN Includes(line, TimeMarker) ELSE StartsWith(line, TimeMarker)

\* LineKind without the branch of lines 87-93.
LineKindWithoutNoise(line, cloudwatch) ==
    IF IsBoundary(line, cloudwatch) THEN "boundary"
    ELSE IF StartsWith(line, QueryTimePrefix) THEN "queryTime"
    ELSE IF StartsWith(line, TimestampPrefix) THEN "timestamp"
    ELSE IF StartsWith(line, ThreadIdPrefix) THEN "threadId"
    ELSE IF StartsWith(line, UserHostPrefix) THEN "userHost"
    ELSE "query"

\* The branch of the if / else-if chain of lines 54-97 a line takes.
LineKind(line, cloudwatch) ==
    IF IsBoundary(line, cloudwatch) THEN "boundary"
    ELSE IF StartsWith(line, QueryTimePrefix) THEN "queryTime"
    ELSE IF StartsWith(line, TimestampPrefix) THEN "timestamp"
    ELSE IF StartsWith(line, ThreadIdPrefix) THEN "threadId"
    ELSE IF StartsWith(line, UserHostPrefix) THEN "userHost"
    ELSE IF \E prefix \in NoisePrefixes : StartsWith(line, prefix) THEN "ignore"
    ELSE "query"

\* queryToTimingsMap.has(query)
Has(map, query) == \E i \in 1..Len(map) : map[i].query = query

\* MergeTiming without line 63.
MergeTimingLockTimeDropped(queryTiming, timing) ==
    [queryTiming EXCEPT
        !.totalTime = Add(@, Add(timing.queryTime, timing.lockTime)),
        !.queryTime = Add(@, timing.queryTime),
        !.count     = @ + 1]

\* MergeTiming that takes the timestamp of the entry it merges.
MergeTimingLastTimestamp(queryTiming, timing) ==
    [queryTiming EXCEPT
        !.totalTime     = Add(@, Add(timing.queryTime, timing.lockTime)),
        !.queryTime     = Add(@, timing.queryTime),
        !.lockTime      = Add(@, timing.lockTime),
        !.count         = @ + 1,
        !.unixTimestamp = timing.unixTimestamp]

\* MergeTiming without line 64.
MergeTimingCountKept(queryTiming, timing) ==
    [queryTiming EXCEPT
        !.totalTime = Add(@, Add(timing.queryTime, timing.lockTime)),
        !.queryTime = Add(@, timing.queryTime),
        !.lockTime  = Add(@, timing.lockTime)]

\* lines 60-64: the stat after an entry is added to it
MergeTiming(queryTiming, timing) ==
    [queryTiming EXCEPT
        !.totalTime = Add(@, Add(timing.queryTime, timing.lockTime)),
        !.queryTime = Add(@, timing.queryTime),
        !.lockTime  = Add(@, timing.lockTime),
        !.count     = @ + 1]

\* lines 66-67: the entry as it is stored under a new key
NewTiming(timing, query) ==
    [timing EXCEPT !.totalTime = Add(timing.queryTime, timing.lockTime),
                   !.query     = query]

\* line 57: a non-empty string is truthy
ShouldCommit(timing) == timing.query # <<>>

\* Commit that adds the entry to every stat when its key is present.
CommitIntoEveryStat(map, timing) ==
    IF ShouldCommit(timing)
    THEN LET query == cleanUpQuery(timing.query)
         IN  IF Has(map, query)
             THEN [i \in 1..Len(map) |-> MergeTiming(map[i], timing)]
             ELSE Append(map, NewTiming(timing, query))
    ELSE map

\* lines 56-70: the map after the boundary line
Commit(map, timing) ==
    IF ShouldCommit(timing)
    THEN LET query == cleanUpQuery(timing.query)
         IN  IF Has(map, query)
             THEN [i \in 1..Len(map) |->
                      IF map[i].query = query THEN MergeTiming(map[i], timing) ELSE map[i]]
             ELSE Append(map, NewTiming(timing, query))
    ELSE map

\* The entry a boundary line merges, as the history keeps it.
CommittedEntry(timing) ==
    [query |-> cleanUpQuery(timing.query), queryTime |-> timing.queryTime,
     lockTime |-> timing.lockTime, unixTimestamp |-> timing.unixTimestamp]

\* Crash replaced by a guard that skips the line.
CrashSkippingLine ==
    UNCHANGED <<pc, queryToTimingsMap, currentTiming, committed, bodyLines>>

\* Crash replaced by a guard that goes on with zero timings.
CrashGuardedWithDefaults ==
    /\ currentTiming' = [currentTiming EXCEPT !.queryTime = Num(0), !.lockTime = Num(0)]
    /\ UNCHANGED <<pc, queryToTimingsMap, committed, bodyLines>>

\* match[1] of null throws a TypeError no one catches: the process ends.
Crash ==
    /\ pc' = "crashed"
    /\ UNCHANGED <<queryToTimingsMap, currentTiming, committed, bodyLines>>

\* SetFields that adds the times of a further Query_time line of the entry
\* to the times it holds.
SetFieldsSummingTimes(timing) ==
    /\ currentTiming' =
          [timing EXCEPT
              !.queryTime = IF IsNum(currentTiming.queryTime) /\ @ # currentTiming.queryTime
                            THEN Add(currentTiming.queryTime, @) ELSE @,
              !.lockTime  = IF IsNum(currentTiming.lockTime) /\ @ # currentTiming.lockTime
                            THEN Add(currentTiming.lockTime, @) ELSE @]
    /\ UNCHANGED <<pc, queryToTimingsMap, committed, bodyLines>>

SetFields(timing) ==
    /\ currentTiming' = timing
    /\ UNCHANGED <<pc, queryToTimingsMap, committed, bodyLines>>

OnLine(line) ==
    /\ pc = "reading"
    /\ LET kind == LineKind(line, cloudwatchFormat) IN
       /\ kind = "query" => bodyLines < MaxBodyLines
       /\ CASE kind = "boundary" ->
                 /\ queryToTimingsMap' = Commit(queryToTimingsMap, currentTiming)
                 /\ currentTiming' = EmptyTiming
                 /\ committed' = IF currentTiming.query # <<>>
                                 THEN Append(committed, CommittedEntry(currentTiming))
                                 ELSE committed
                 /\ UNCHANGED <<pc, bodyLines>>
            [] kind = "queryTime" ->
                 LET match == Match(line, QueryTimePattern) IN
                 IF ~match.matched THEN Crash
                 ELSE SetFields([currentTiming EXCEPT
                                    !.queryTime = parseFloat(match.groups[1]),
                                    !.lockTime  = parseFloat(match.groups[2])])
            [] kind = "timestamp" ->
                 LET match == Match(line, TimestampPattern) IN
                 IF ~match.matched THEN Crash
                 ELSE SetFields([currentTiming EXCEPT
                                    !.unixTimestamp = parseInt(match.groups[1])])
            [] kind = "threadId" ->
                 LET match == Match(line, ThreadIdPattern) IN
                 IF ~match.matched THEN Crash
                 ELSE SetFields([currentTiming EXCEPT
                                    !.connectionId = parseInt(match.groups[1])])
            [] kind = "userHost" ->
                 LET match == Match(line, UserHostPattern) IN
                 IF ~match.matched THEN Crash
                 ELSE SetFields([currentTiming EXCEPT
                                    !.connectionId = parseInt(match.groups[1])])
            [] kind = "ignore" ->
                 UNCHANGED <<pc, queryToTimingsMap, currentTiming, committed, bodyLines>>
            [] kind = "query" ->
                 /\ currentTiming' = [currentTiming EXCEPT !.query = @ \o line]
                 /\ bodyLines' = bodyLines + 1
                 /\ UNCHANGED <<pc, queryToTimingsMap, committed>>
    /\ UNCHANGED <<cloudwatchFormat, logVocabulary, timingsCSV, connectionsCSV>>

---------------------------------------------------------------------------
(* Array.prototype.sort *)

Orders(n) == {p \in [1..n -> 1..n] : \A i, j \in 1..n : p[i] = p[j] => i = j}

\* What sort makes of the comparator's result: NaN counts as 0.
CompareValue(result) == IF IsNum(result) THEN result.v ELSE 0

\* Whether the comparator, given by its results c[i, j] on the n values of the
\* array, is a consistent comparison function for them (ECMAScript,
\* Array.prototype.sort).
IsConsistent(n, c) ==
    LET N == 1..n
    IN  /\ \A i \in N : c[i, i] = 0
        /\ \A i, j \in N : /\ c[i, j] = 0 => c[j, i] = 0
                           /\ c[i, j] < 0 => c[j, i] > 0
                           /\ c[i, j] > 0 => c[j, i] < 0
        /\ \A i, j, k \in N : /\ c[i, j] = 0 /\ c[j, k] = 0 => c[i, k] = 0
                              /\ c[i, j] < 0 /\ c[j, k] < 0 => c[i, k] < 0
                              /\ c[i, j] > 0 /\ c[j, k] > 0 => c[i, k] > 0

\* The arrays values.sort(comparator) may give, c[i, j] being what sort makes
\* of comparator(values[i], values[j]): the stable sort when the comparator is
\* consistent for the values, and an order the engine chooses when it is not.
SortOutcomes(values, c) ==
    LET n == Len(values)
        sorted(p) == \A i, j \in 1..n :
                        i < j => \/ c[p[i], p[j]] < 0
                                 \/ c[p[i], p[j]] = 0 /\ p[i] < p[j]
        orders == IF IsConsistent(n, c)
                  THEN {p \in Orders(n) : sorted(p)}
                  ELSE Orders(n)
    IN  {[i \in 1..n |-> values[p[i]]] : p \in orders}

---------------------------------------------------------------------------
(* The reports, lines 122-180 *)

\* line 13
MAX_CELL_STRING_LENGTH == 50000

\* replace(/"/g, '""')
RECURSIVE DoubleQuotes(_)
DoubleQuotes(s) ==
    IF s = <<>> THEN <<>>
    ELSE (IF Head(s) = "\"" THEN <<"\"", "\"">> ELSE <<Head(s)>>) \o DoubleQuotes(Tail(s))

\* lines 141-146
cleanStringForCSV(someText) ==
    LET returnVal == DoubleQuotes(someText)
    IN  IF Len(returnVal) > MAX_CELL_STRING_LENGTH
        THEN Substring(returnVal, 0, MAX_CELL_STRING_LENGTH - 3) \o <<".",".",".">>
        ELSE returnVal

\* line 129: (v1, v2) => v2.totalTime - v1.totalTime
TimingsCompare(v1, v2) == SubtractSign(v2.totalTime, v1.totalTime)

\* The comparator's results on the values of the map.
TimingsComparisons(values) ==
    [i \in 1..Len(values), j \in 1..Len(values) |->
        CompareValue(TimingsCompare(values[i], values[j]))]

\* line 133: the row of a stat
TimingsRow(timing) ==
    [totalTime   |-> timing.totalTime,
     queryTime   |-> timing.queryTime,
     lockTime    |-> timing.lockTime,
     averageTime |-> Divide(timing.totalTime, timing.count),
     count       |-> timing.count,
     query       |-> cleanStringForCSV(timing.query)]

\* writeTimingsCSV that first merges the entry still in progress.
writeTimingsCSVAfterFlush(map) ==
    {[i \in 1..Len(sortedByTime) |-> TimingsRow(sortedByTime[i])] :
        sortedByTime \in SortOutcomes(Commit(map, currentTiming),
                                      TimingsComparisons(Commit(map, currentTiming)))}

\* lines 127-134: the rows writeTimingsCSV may write
writeTimingsCSV(map) ==
    {[i \in 1..Len(sortedByTime) |-> TimingsRow(sortedByTime[i])] :
        sortedByTime \in SortOutcomes(map, TimingsComparisons(map))}

\* The sum of the counts of rows or stats.
RECURSIVE SumOfCounts(_)
SumOfCounts(rows) == IF rows = <<>> THEN 0 ELSE rows[1].count + SumOfCounts(Tail(rows))

\* lines 155-163: timestampToQueriesMap, in insertion order
RECURSIVE TimestampToQueries(_)
TimestampToQueries(values) ==
    IF values = <<>> THEN <<>>
    ELSE LET value == values[Len(values)]
             before == TimestampToQueries(SubSeq(values, 1, Len(values) - 1))
         IN  IF \E i \in 1..Len(before) : before[i].unixTimestamp = value.unixTimestamp
             THEN [i \in 1..Len(before) |->
                      IF before[i].unixTimestamp = value.unixTimestamp
                      THEN [before[i] EXCEPT !.queries = Append(@, value.query)]
                      ELSE before[i]]
             ELSE Append(before, [unixTimestamp |-> value.unixTimestamp,
                                  queries       |-> <<value.query>>])

\* ConnectionTimings that counts the executions of the queries of a bucket.
ConnectionTimingsCountingExecutions(values) ==
    LET buckets == TimestampToQueries(values)
        executions(timestamp) ==
            SumOfCounts(SelectSeq(values, LAMBDA value : value.unixTimestamp = timestamp))
    IN  [i \in 1..Len(buckets) |->
            [unixTimestamp |-> buckets[i].unixTimestamp,
             count         |-> executions(buckets[i].unixTimestamp),
             queries       |-> buckets[i].queries]]

\* lines 164-171
ConnectionTimings(values) ==
    LET buckets == TimestampToQueries(values)
    IN  [i \in 1..Len(buckets) |->
            [unixTimestamp |-> buckets[i].unixTimestamp,
             count         |-> Len(buckets[i].queries),
             queries       |-> buckets[i].queries]]

\* line 172: (v1, v2) => v1.unixTimestamp - v2.unixTimestamp
ConnectionsCompare(v1, v2) == SubtractSign(v1.unixTimestamp, v2.unixTimestamp)

\* The comparator's results on the buckets.
ConnectionsComparisons(timings) ==
    [i \in 1..Len(timings), j \in 1..Len(timings) |->
        CompareValue(ConnectionsCompare(timings[i], timings[j]))]

\* queries.join("\n")
RECURSIVE Join(_)
Join(queries) ==
    IF queries = <<>> THEN <<>>
    ELSE IF Len(queries) = 1 THEN queries[1]
    ELSE queries[1] \o <<"\n">> \o Join(Tail(queries))

\* moment.unix(t).format("YYYY-MM-DD HH:mm:ss"): the second it names, or
\* "Invalid date" when t is no number.
FormatTime(unixTimestamp) ==
    IF IsNum(unixTimestamp) THEN [valid |-> TRUE, second |-> unixTimestamp.v]
    ELSE [valid |-> FALSE, second |-> 0]

\* line 177: the row of a bucket
ConnectionsRow(timing) ==
    [time          |-> FormatTime(timing.unixTimestamp),
     unixTimestamp |-> timing.unixTimestamp,
     count         |-> timing.count,
     queries       |-> cleanStringForCSV(Join(timing.queries))]

\* writeConnectionsCSV that first merges the entry still in progress.
writeConnectionsCSVAfterFlush(map) ==
    {[i \in 1..Len(sortedByTime) |-> ConnectionsRow(sortedByTime[i])] :
        sortedByTime \in SortOutcomes(ConnectionTimings(Commit(map, currentTiming)),
                          ConnectionsComparisons(ConnectionTimings(Commit(map, currentTiming))))}

\* lines 152-178: the rows writeConnectionsCSV may write
writeConnectionsCSV(map) ==
    {[i \in 1..Len(sortedByTime) |-> ConnectionsRow(sortedByTime[i])] :
        sortedByTime \in SortOutcomes(ConnectionTimings(map),
                                      ConnectionsComparisons(ConnectionTimings(map)))}

\* lines 101-104: the end handler
OnEnd ==
    /\ pc = "reading"
    /\ timingsCSV' \in writeTimingsCSV(queryToTimingsMap)
    /\ connectionsCSV' \in writeConnectionsCSV(queryToTimingsMap)
    /\ pc' = "done"
    /\ UNCHANGED <<cloudwatchFormat, logVocabulary, queryToTimingsMap, currentTiming,
                   committed, bodyLines>>

---------------------------------------------------------------------------
(* The program *)

\* The state before the first line of a file that has room for all but
\* counted of the MaxBodyLines body lines.
StartWith(names, counted) ==
    /\ cloudwatchFormat \in BOOLEAN
    /\ logVocabulary \in names
    /\ queryToTimingsMap = <<>>
    /\ currentTiming = EmptyTiming
    /\ pc = "reading"
    /\ timingsCSV = <<>>
    /\ connectionsCSV = <<>>
    /\ committed = <<>>
    /\ bodyLines = counted

StartOf(names) == StartWith(names, 0)

Init == StartOf(VocabularyNames)

InitReports == StartOf(ReportVocabularyNames)

\* The minimal log has one body line.
InitExample == StartWith(ExampleVocabularyNames, MaxBodyLines - 1)

\* The state after the first body line, whose text is any of Texts; the
\* boundary line of the vocabulary is one in both modes.
InitNormalize ==
    /\ cloudwatchFormat = FALSE
    /\ logVocabulary \in NormalizeVocabularyNames
    /\ queryToTimingsMap = <<>>
    /\ \E text \in Texts : currentTiming = [EmptyTiming EXCEPT !.query = text]
    /\ pc = "reading"
    /\ timingsCSV = <<>>
    /\ connectionsCSV = <<>>
    /\ committed = <<>>
    /\ bodyLines = 1

ReadLine == \E line \in Vocabulary(logVocabulary) : OnLine(line)

Next == ReadLine \/ OnEnd

Spec == Init /\ [][Next]_vars

SpecReports == InitReports /\ [][Next]_vars

SpecExample == InitExample /\ [][Next]_vars

SpecNormalize == InitNormalize /\ [][Next]_vars

---------------------------------------------------------------------------
(* Properties *)

Stats == {queryToTimingsMap[i] : i \in 1..Len(queryToTimingsMap)}

\* The committed entries whose normalized query is the key, in commit order.
EntriesOf(key) == SelectSeq(committed, LAMBDA entry : entry.query = key)

\* The sum, taken in order, of a non-empty sequence of values.
RECURSIVE SumInOrder(_)
SumInOrder(values) ==
    IF Len(values) = 1 THEN values[1]
    ELSE Add(SumInOrder(SubSeq(values, 1, Len(values) - 1)), values[Len(values)])

\* C1: no stat of the aggregation mapping has the empty string as its
\* normalized query, in any state of the scan.
C1_NoEmptyKey == \A stat \in Stats : stat.query # <<>>

\* C2: for every stat of the mapping, at every point after its insertion,
\* totalTime equals queryTime + lockTime.
C2_TotalIsQueryPlusLock ==
    \A stat \in Stats : StrictEquals(stat.totalTime, Add(stat.queryTime, stat.lockTime))

\* C3: for each normalized query the stat's count is the number of committed
\* entries with that key, and its queryTime and lockTime are the sums of those
\* entries' queryTime and lockTime; every committed key has a stat.
C3_CountAndSums ==
    /\ \A stat \in Stats :
          LET entries == EntriesOf(stat.query) IN
          /\ stat.count = Len(entries)
          /\ stat.queryTime = SumInOrder([i \in 1..Len(entries) |-> entries[i].queryTime])
          /\ stat.lockTime = SumInOrder([i \in 1..Len(entries) |-> entries[i].lockTime])
    /\ \A j \in 1..Len(committed) : Has(queryToTimingsMap, committed[j].query)

\* C3's case: entries {1.0, 0.5} and {2.0, 0.5} of one key were merged into a
\* stat with count 2, queryTime 3.0, lockTime 1.0 and totalTime 4.0.
C3_Witness ==
    \E stat \in Stats :
        /\ Len(EntriesOf(stat.query)) = 2
        /\ [i \in 1..2 |-> <<EntriesOf(stat.query)[i].queryTime,
                             EntriesOf(stat.query)[i].lockTime>>]
              = << <<Num(10), Num(5)>>, <<Num(20), Num(5)>> >>
        /\ stat.count = 2
        /\ stat.queryTime = Num(30)
        /\ stat.lockTime = Num(10)
        /\ stat.totalTime = Num(40)

\* The key under which a boundary line commits the entry in progress.
PendingKey == cleanUpQuery(currentTiming.query)

\* C4: a step creates or changes only the stat stored under the normalized
\* query of the entry it commits: every other stat stays as it is, at its
\* place, and at most one stat is added, under that key.
C4_OnlyOwnStatChanges ==
    [][/\ Len(queryToTimingsMap') \in {Len(queryToTimingsMap), Len(queryToTimingsMap) + 1}
       /\ \A i \in 1..Len(queryToTimingsMap) :
             queryToTimingsMap[i].query # PendingKey
                => queryToTimingsMap'[i] = queryToTimingsMap[i]
       /\ \A i \in 1..Len(queryToTimingsMap') :
             i > Len(queryToTimingsMap) => queryToTimingsMap'[i].query = PendingKey
       /\ \A i, j \in 1..Len(queryToTimingsMap') :
             queryToTimingsMap'[i].query = queryToTimingsMap'[j].query => i = j]_vars

\* C4's case: two entries of distinct keys were committed and gave two stats,
\* each with count 1.
C4_Witness ==
    /\ Len(committed) = 2
    /\ committed[1].query # committed[2].query
    /\ Len(queryToTimingsMap) = 2
    /\ \A stat \in Stats : stat.count = 1

\* The first committed entry with the key.
FirstEntryOf(key) == EntriesOf(key)[1]

\* C5: a stat's unixTimestamp is the timestamp of the first committed entry of
\* its key, whatever later entries of the key carry, and the connections
\* report lists the stat's query in the row of that timestamp.
C5_FirstTimestampWins ==
    \A stat \in Stats :
        /\ stat.unixTimestamp = FirstEntryOf(stat.query).unixTimestamp
        /\ pc = "done" =>
              \E r \in 1..Len(connectionsCSV) :
                  /\ connectionsCSV[r].unixTimestamp = FirstEntryOf(stat.query).unixTimestamp
                  /\ Includes(connectionsCSV[r].queries, cleanStringForCSV(stat.query))

\* C5's case: a later entry of a stat's key carried another timestamp than
\* the first one, and the reports were written.
C5_Witness ==
    /\ pc = "done"
    /\ \E stat \in Stats :
          \E i \in 1..Len(EntriesOf(stat.query)) :
              /\ i > 1
              /\ IsNum(EntriesOf(stat.query)[i].unixTimestamp)
              /\ IsNum(stat.unixTimestamp)
              /\ EntriesOf(stat.query)[i].unixTimestamp # stat.unixTimestamp

\* A boundary line: one that starts with # Time: in standard mode, one that
\* holds # Time: anywhere in cloudwatch mode.
IsTimeBoundary(line) ==
    IF cloudwatchFormat THEN \E i \in 1..Len(line) : StartsWith(SubSeq(line, i, Len(line)), TimeMarker)
    ELSE StartsWith(line, TimeMarker)

\* The timing report has one row for each stat of the mapping and no other.
TimingRowsAreTheStats ==
    /\ Len(timingsCSV) = Len(queryToTimingsMap)
    /\ \A stat \in Stats :
          \E r \in 1..Len(timingsCSV) :
              /\ timingsCSV[r].query = cleanStringForCSV(stat.query)
              /\ timingsCSV[r].count = stat.count
              /\ timingsCSV[r].totalTime = stat.totalTime

\* The connections report lists each stat of the mapping once and nothing else.
ConnectionRowsAreTheStats ==
    /\ SumOfCounts(connectionsCSV) = Len(queryToTimingsMap)
    /\ \A stat \in Stats :
          \E r \in 1..Len(connectionsCSV) :
              /\ connectionsCSV[r].unixTimestamp = stat.unixTimestamp
              /\ Includes(connectionsCSV[r].queries, cleanStringForCSV(stat.query))

\* C6: the mapping changes only on boundary lines, and the end of input merges
\* nothing: the entry accumulated after the last boundary stays out, and both
\* reports are written from the mapping as the last boundary line left it.
C6_CommitsOnlyAtBoundaries ==
    [][/\ queryToTimingsMap' # queryToTimingsMap
             => \E line \in Vocabulary(logVocabulary) : IsTimeBoundary(line) /\ OnLine(line)
       /\ pc' = "done"
             => /\ queryToTimingsMap' = queryToTimingsMap
                /\ currentTiming' = currentTiming
                /\ TimingRowsAreTheStats'
                /\ ConnectionRowsAreTheStats']_vars

\* C6's case: the input ended while an entry was accumulated after the last
\* boundary, and the reports were written.
C6_Witness ==
    /\ pc = "done"
    /\ currentTiming.query # <<>>
    /\ queryToTimingsMap # <<>>
    /\ ~Has(queryToTimingsMap, PendingKey)

\* A line that starts with one of the marker or noise prefixes of rules 2-6.
HasMarkerOrNoisePrefix(line) ==
    \E prefix \in {QueryTimePrefix, TimestampPrefix, ThreadIdPrefix, UserHostPrefix}
                     \cup NoisePrefixes : StartsWith(line, prefix)

\* C7: a boundary line, whatever else it starts with, resets the entry in
\* progress and passes nothing of its content on; a line that is no boundary
\* in the mode at hand leaves the mapping and the accumulated entry in place,
\* and in standard mode a line with # Time: inside it and none of the
\* prefixes is appended to the query text.
C7_BoundaryByMode ==
    [][\A line \in Vocabulary(logVocabulary) :
          OnLine(line) =>
             IF IsTimeBoundary(line)
             THEN /\ currentTiming' = EmptyTiming
                  /\ pc' = pc
                  /\ \A i \in 1..Len(queryToTimingsMap') :
                        \/ queryToTimingsMap'[i].query = PendingKey
                        \/ Has(queryToTimingsMap, queryToTimingsMap'[i].query)
             ELSE /\ queryToTimingsMap' = queryToTimingsMap
                  /\ StartsWith(currentTiming'.query, currentTiming.query)
                  /\ IsNum(currentTiming.connectionId) => IsNum(currentTiming'.connectionId)
                  /\ Includes(line, TimeMarker) /\ ~HasMarkerOrNoisePrefix(line)
                        => currentTiming' = [currentTiming EXCEPT !.query = @ \o line]]_vars

\* C7's case: in standard mode a line holding # Time: in its interior was
\* appended to the query text, and one starting with # Thread_id: and holding
\* # Time: set the connection id.
C7_Witness ==
    /\ ~cloudwatchFormat
    /\ Includes(currentTiming.query, TimeMarker)
    /\ currentTiming.connectionId = Num(7)

\* A line that starts with # Query_time and does not match the four fields.
IsMalformedQueryTime(line) ==
    StartsWith(line, QueryTimePrefix) /\ ~Match(line, QueryTimePattern).matched

\* C8: a timing-marker line that does not match the four-field pattern ends
\* the run at that line: the entry in progress and the mapping stay as they
\* were, no step follows, and no report is written.
C8_MalformedQueryTimeIsFatal ==
    [][/\ pc # "crashed"
       /\ \A line \in Vocabulary(logVocabulary) :
             OnLine(line) /\ ~IsTimeBoundary(line) /\ IsMalformedQueryTime(line)
                => /\ pc' = "crashed"
                   /\ currentTiming' = currentTiming
                   /\ queryToTimingsMap' = queryToTimingsMap
                   /\ timingsCSV' = <<>>
                   /\ connectionsCSV' = <<>>]_vars

\* C8's case: a malformed timing-marker line was read with an entry accumulated.
C8_Witness ==
    /\ pc = "crashed"
    /\ currentTiming.query # <<>>
    /\ queryToTimingsMap # <<>>

\* The place in the mapping of the stat a timing row was written from.
InsertionIndex(row) ==
    CHOOSE k \in 1..Len(queryToTimingsMap) :
        cleanStringForCSV(queryToTimingsMap[k].query) = row.query

\* C9: the rows of the timing report are in descending order of totalTime,
\* rows of equal totalTime in the order their stats were inserted.
C9_TimingRowsDescending ==
    pc = "done" =>
        \A i, j \in 1..Len(timingsCSV) :
            i < j /\ IsNum(timingsCSV[i].totalTime) /\ IsNum(timingsCSV[j].totalTime)
               => /\ timingsCSV[i].totalTime.v >= timingsCSV[j].totalTime.v
                  /\ timingsCSV[i].totalTime.v = timingsCSV[j].totalTime.v
                        => InsertionIndex(timingsCSV[i]) < InsertionIndex(timingsCSV[j])

\* C10: the connections report has one row for each distinct unixTimestamp
\* of the stats, the absent one included, and its rows are in strictly
\* ascending order of timestamp.
C10_OneRowPerTimestampAscending ==
    pc = "done" =>
        /\ {connectionsCSV[r].unixTimestamp : r \in 1..Len(connectionsCSV)}
              = {stat.unixTimestamp : stat \in Stats}
        /\ \A i, j \in 1..Len(connectionsCSV) :
              i < j => connectionsCSV[i].unixTimestamp # connectionsCSV[j].unixTimestamp
        /\ \A i, j \in 1..Len(connectionsCSV) :
              i < j /\ IsNum(connectionsCSV[i].unixTimestamp)
                    /\ IsNum(connectionsCSV[j].unixTimestamp)
                 => connectionsCSV[i].unixTimestamp.v < connectionsCSV[j].unixTimestamp.v

\* The stats stored with the timestamp, in insertion order.
StatsAt(timestamp) ==
    SelectSeq(queryToTimingsMap, LAMBDA stat : stat.unixTimestamp = timestamp)

\* C11: in the connections report each bucket's count is the number of stats
\* stored with the bucket's timestamp, whatever their execution counts, its
\* query list is the texts of exactly those stats, and the counts of all
\* buckets add up to the number of stats.
C11_BucketCountsDistinctQueries ==
    pc = "done" =>
        /\ \A r \in 1..Len(connectionsCSV) :
              LET stats == StatsAt(connectionsCSV[r].unixTimestamp) IN
              /\ connectionsCSV[r].count = Len(stats)
              /\ connectionsCSV[r].queries
                    = cleanStringForCSV(Join([i \in 1..Len(stats) |-> stats[i].query]))
        /\ SumOfCounts(connectionsCSV) = Len(queryToTimingsMap)

\* C11's case: the report has a bucket of two stats, one of them executed twice.
C11_Witness ==
    /\ pc = "done"
    /\ \E r \in 1..Len(connectionsCSV) :
          /\ connectionsCSV[r].count = 2
          /\ \E stat \in Stats :
                /\ stat.unixTimestamp = connectionsCSV[r].unixTimestamp
                /\ stat.count = 2

\* C12: after every boundary line, whether or not it committed an entry, the
\* entry in progress is empty: its text is the empty string and its
\* queryTime, lockTime, unixTimestamp and connectionId are absent.
C12_EmptyAfterBoundary ==
    [][\A line \in Vocabulary(logVocabulary) :
          OnLine(line) /\ IsTimeBoundary(line)
             => /\ currentTiming'.query = <<>>
                /\ currentTiming'.count = 1
                /\ \A field \in {"queryTime", "lockTime", "unixTimestamp", "connectionId"} :
                      currentTiming'[field] = Undefined]_vars

\* C12's case: a boundary line committed an entry that carried a timestamp,
\* and the entry in progress has no text and no timestamp.
C12_Witness ==
    /\ pc = "reading"
    /\ committed # <<>>
    /\ IsNum(committed[Len(committed)].unixTimestamp)
    /\ currentTiming.query = <<>>
    /\ currentTiming.unixTimestamp = Undefined
    /\ bodyLines = Len(committed)

\* C13: no report row exists while lines are read or after the run was
\* aborted; every step is the handler of one line, taken whole, or the end
\* of the input; the end of the input leaves the mapping as it is and writes
\* both reports from it, and nothing follows.
C13_ReportsOnlyAtEnd ==
    [][/\ pc = "reading"
       /\ timingsCSV = <<>> /\ connectionsCSV = <<>>
       /\ \/ /\ pc' \in {"reading", "crashed"}
             /\ \E line \in Vocabulary(logVocabulary) : OnLine(line)
             /\ timingsCSV' = <<>> /\ connectionsCSV' = <<>>
          \/ /\ pc' = "done"
             /\ queryToTimingsMap' = queryToTimingsMap
             /\ TimingRowsAreTheStats'
             /\ ConnectionRowsAreTheStats']_vars

\* C13's case: the input ended with two stats of two timestamps in the mapping
\* and both reports have their rows.
C13_Witness ==
    /\ pc = "done"
    /\ Len(queryToTimingsMap) = 2
    /\ Len(timingsCSV) = 2
    /\ Len(connectionsCSV) = 2

\* The length of the numeric literal that starts at s[i], 0 when none does: an
\* optional sign, then digits with an optional fraction, or a fraction alone.
NumericLiteralLength(s, i) ==
    LET isDigit(k) == k <= Len(s) /\ s[k] \in Digits
        digitsFrom(k) == IF isDigit(k)
                         THEN Min({m \in k..(Len(s) + 1) : ~isDigit(m)}) - k
                         ELSE 0
        signed == IF s[i] \in {"-", "+"} THEN 1 ELSE 0
        whole == digitsFrom(i + signed)
        dot == i + signed + whole
        fraction == IF dot <= Len(s) /\ s[dot] = "." THEN digitsFrom(dot + 1) ELSE 0
    IN  IF fraction > 0 THEN signed + whole + 1 + fraction
        ELSE IF whole > 0 THEN signed + whole
        ELSE 0

\* What is left of a text from s[i] on when the content of its literals is
\* left out: "S" for a single-quoted string literal (a quote up to the next
\* quote), "N" for a numeric literal, and the other characters as they are.
RECURSIVE Skeleton(_, _)
Skeleton(s, i) ==
    IF i > Len(s) THEN <<>>
    ELSE LET closing == {k \in (i + 1)..Len(s) : s[k] = "'"}
             n == NumericLiteralLength(s, i)
         IN  IF s[i] = "'" /\ closing # {}
             THEN <<"S">> \o Skeleton(s, Min(closing) + 1)
             ELSE IF n > 0 THEN <<"N">> \o Skeleton(s, i + n)
             ELSE <<s[i]>> \o Skeleton(s, i + 1)

\* C14: a raw query text and any text that differs from it only in the
\* content of numeric literals and of single-quoted string literals have the
\* same normalized query, and two entries with these texts are merged into
\* one stat.
C14_LiteralsDoNotMatter ==
    pc = "reading" /\ currentTiming.query # <<>> =>
        LET text == currentTiming.query
            skeleton == Skeleton(text, 1)
            key == cleanUpQuery(text)
        IN  \A other \in Texts :
                Skeleton(other, 1) = skeleton
                   => /\ cleanUpQuery(other) = key
                      /\ Len(Commit(Commit(<<>>, [currentTiming EXCEPT !.query = other]),
                                     currentTiming)) = 1

\* C14's case: the boundary line committed an entry under the key ?, the
\* normalized query of a string literal with a digit in it and of the texts
\* that differ from it in the content of that literal.
C14_Witness ==
    /\ pc = "reading"
    /\ currentTiming.query = <<>>
    /\ Len(queryToTimingsMap) = 1
    /\ queryToTimingsMap[1].count = 1
    /\ \E text, other \in Texts :
          /\ Skeleton(text, 1) = <<"S">>
          /\ Skeleton(other, 1) = <<"S">>
          /\ \E i \in 1..Len(text) : text[i] \in Digits
          /\ \A i \in 1..Len(other) : other[i] \notin Digits
          /\ queryToTimingsMap[1].query = cleanUpQuery(text)
          /\ queryToTimingsMap[1].query = cleanUpQuery(other)

\* The normalized query of the body line of the minimal log.
ExampleKey ==
    <<"S","E","L","E","C","T"," ","*"," ","F","R","O","M"," ","t"," ","W","H","E","R",
      "E"," ","i","d"," ","="," ","?",";">>

\* C15: in standard mode, when the minimal log's body line was read and one
\* entry, with the times of the Query_time line and the timestamp of the SET
\* timestamp line, was committed, the mapping has exactly one stat: its key
\* is the normalized body line, its count 1, its totalTime queryTime +
\* lockTime and its unixTimestamp the parsed timestamp; and the reports have
\* one timing row and one connections row of that timestamp with count 1.
C15_MinimalLog ==
    /\ logVocabulary = "example"
    /\ ~cloudwatchFormat
    /\ bodyLines = MaxBodyLines
    /\ Len(committed) = 1
    /\ IsNum(committed[1].queryTime)
    /\ IsNum(committed[1].unixTimestamp)
    => /\ Len(queryToTimingsMap) = 1
       /\ queryToTimingsMap[1].query = ExampleKey
       /\ queryToTimingsMap[1].query = cleanUpQuery(ExampleQueryLine)
       /\ queryToTimingsMap[1].count = 1
       /\ queryToTimingsMap[1].queryTime = Num(15)
       /\ queryToTimingsMap[1].lockTime = Num(2)
       /\ queryToTimingsMap[1].totalTime = Num(17)
       /\ queryToTimingsMap[1].unixTimestamp = Num(1672531200)
       /\ pc = "done"
             => /\ Len(timingsCSV) = 1
                /\ timingsCSV[1].query = ExampleKey
                /\ timingsCSV[1].totalTime = Num(17)
                /\ timingsCSV[1].count = 1
                /\ Len(connectionsCSV) = 1
                /\ connectionsCSV[1].time = [valid |-> TRUE, second |-> 1672531200]
                /\ connectionsCSV[1].count = 1
                /\ connectionsCSV[1].queries = ExampleKey

\* C15's case: the minimal log was read to its end, the User@Host line
\* included, and both reports were written.
C15_Witness ==
    /\ logVocabulary = "example"
    /\ ~cloudwatchFormat
    /\ pc = "done"
    /\ bodyLines = MaxBodyLines
    /\ Len(committed) = 1
    /\ currentTiming = EmptyTiming
    /\ Len(queryToTimingsMap) = 1
    /\ queryToTimingsMap[1].connectionId = Num(42)
    /\ queryToTimingsMap[1].totalTime = Num(17)
    /\ Len(timingsCSV) = 1
    /\ Len(connectionsCSV) = 1

\* C16: an entry without a SET timestamp line is committed all the same, and
\* no row of the connections report shows an invalid date in place of the
\* absent timestamp.
C16_AbsentTimestampRendered ==
    /\ \A j \in 1..Len(committed) : Has(queryToTimingsMap, committed[j].query)
    /\ pc = "done" => \A r \in 1..Len(connectionsCSV) : connectionsCSV[r].time.valid

\* A line of rules 2-5: one that starts with a marker prefix.
HasMarkerPrefix(line) ==
    \E prefix \in {QueryTimePrefix, TimestampPrefix, ThreadIdPrefix, UserHostPrefix} :
        StartsWith(line, prefix)

\* C17: a line that matches none of rules 1-6 is appended as it is, with no
\* separator, to the text of the entry in progress and changes nothing else;
\* marker lines leave the text as it is and noise lines leave the whole entry
\* as it is; the boundary line commits under the normalized query of the
\* text so accumulated.
C17_KeyIsConcatenatedBodyLines ==
    [][\A line \in Vocabulary(logVocabulary) :
          OnLine(line) =>
             IF IsTimeBoundary(line)
             THEN currentTiming.query # <<>>
                     => /\ Len(committed') = Len(committed) + 1
                        /\ committed'[Len(committed')].query = cleanUpQuery(currentTiming.query)
                        /\ Has(queryToTimingsMap', cleanUpQuery(currentTiming.query))
             ELSE IF HasMarkerPrefix(line)
             THEN currentTiming'.query = currentTiming.query
             ELSE IF HasMarkerOrNoisePrefix(line)
             THEN currentTiming' = currentTiming
             ELSE currentTiming' = [currentTiming EXCEPT !.query = @ \o line]]_vars

\* C17's case: in a log with noise lines, two body lines and a marker line
\* were read and committed under the key of the body lines' concatenation.
C17_Witness ==
    /\ logVocabulary = "noise"
    /\ Len(committed) = 1
    /\ committed[1].query = <<"a", "?", "b">>
    /\ IsNum(committed[1].queryTime)
    /\ currentTiming = EmptyTiming

\* C18: the counts of the stats add up to the number of boundary lines read
\* with a non-empty accumulated text; no step removes a key or moves it, and
\* no step lowers a stat's count.
C18_CommitsConserved ==
    [][/\ SumOfCounts(queryToTimingsMap) = Len(committed)
       /\ SumOfCounts(queryToTimingsMap') = Len(committed')
       /\ Len(queryToTimingsMap') >= Len(queryToTimingsMap)
       /\ \A i \in 1..Len(queryToTimingsMap) :
             /\ queryToTimingsMap'[i].query = queryToTimingsMap[i].query
             /\ queryToTimingsMap'[i].count >= queryToTimingsMap[i].count]_vars

\* C18's case: three boundary lines came with a text accumulated, two of them
\* with the same key: two stats, with counts 2 and 1.
C18_Witness ==
    /\ Len(committed) = 3
    /\ Len(queryToTimingsMap) = 2
    /\ queryToTimingsMap[1].count = 2
    /\ queryToTimingsMap[2].count = 1

\* C19: a line that is no boundary leaves the mapping as it is, whatever was
\* inserted at the boundary before; a Query_time or SET timestamp line puts
\* its own values in place of those of an earlier one; and the boundary line
\* commits all that was read since the last one as a single entry: the counts
\* go up by 1 in all, under the normalized query of the whole text, with the
\* times and the timestamp the entry holds then.
C19_OneEntryPerBoundary ==
    [][\A line \in Vocabulary(logVocabulary) :
          OnLine(line) =>
             IF IsTimeBoundary(line)
             THEN currentTiming.query # <<>>
                     => /\ SumOfCounts(queryToTimingsMap') = SumOfCounts(queryToTimingsMap) + 1
                        /\ committed'[Len(committed')]
                              = [query         |-> cleanUpQuery(currentTiming.query),
                                 queryTime     |-> currentTiming.queryTime,
                                 lockTime      |-> currentTiming.lockTime,
                                 unixTimestamp |-> currentTiming.unixTimestamp]
                        /\ ~Has(queryToTimingsMap, PendingKey)
                              => \E stat \in {queryToTimingsMap'[i] : i \in 1..Len(queryToTimingsMap')} :
                                    /\ stat.query = PendingKey
                                    /\ stat.count = 1
                                    /\ stat.queryTime = currentTiming.queryTime
                                    /\ stat.lockTime = currentTiming.lockTime
                                    /\ stat.unixTimestamp = currentTiming.unixTimestamp
             ELSE /\ queryToTimingsMap' = queryToTimingsMap
                  /\ line = QueryTimeA
                        => currentTiming'.queryTime = Num(10) /\ currentTiming'.lockTime = Num(5)
                  /\ line = QueryTimeB
                        => currentTiming'.queryTime = Num(20) /\ currentTiming'.lockTime = Num(5)
                  /\ line = TimestampLine(<<"5">>) => currentTiming'.unixTimestamp = Num(5)
                  /\ line = TimestampLine(<<"3">>) => currentTiming'.unixTimestamp = Num(3)]_vars

\* C19's case: two records, each with a body line, stood between two
\* boundary lines and were committed as one entry, under the key of both
\* body lines and with the times of the Query_time line read last; a
\* Query_time line read after that boundary left the new stat as it was.
C19_Witness ==
    /\ logVocabulary = "sums"
    /\ Len(committed) = 1
    /\ committed[1].query = <<"a", "?", "a", "?">>
    /\ committed[1].queryTime = Num(20)
    /\ Len(queryToTimingsMap) = 1
    /\ queryToTimingsMap[1].count = 1
    /\ queryToTimingsMap[1].queryTime = Num(20)
    /\ currentTiming.queryTime = Num(10)

\* The lines of the log at hand that start with SET timestamp=, # Thread_id:
\* or # User@Host and do not match the marker's pattern.
MalformedMarkerLines ==
    Vocabulary(logVocabulary)
        \cap {MalformedTimestampLine, MalformedThreadIdLine, UserHostLineWithoutId}

\* C20: while lines are read, a line that starts with SET timestamp=,
\* # Thread_id: or # User@Host and does not match the marker's pattern can
\* only end the run, with the entry in progress and the mapping as they
\* were; after that no line is read and no report is written.
C20_MalformedMarkerIsFatal ==
    /\ pc = "reading" =>
          \A line \in MalformedMarkerLines :
              /\ ENABLED (/\ OnLine(line)
                          /\ pc' = "crashed"
                          /\ currentTiming' = currentTiming
                          /\ queryToTimingsMap' = queryToTimingsMap)
              /\ ~ENABLED (OnLine(line) /\ pc' # "crashed")
    /\ pc = "crashed" =>
          /\ timingsCSV = <<>>
          /\ connectionsCSV = <<>>
          /\ ~ENABLED Next

\* C20's case: a malformed marker line ended the run with a stat in the
\* mapping and an entry in progress whose connection id an earlier line set.
C20_Witness ==
    /\ logVocabulary = "malformed"
    /\ pc = "crashed"
    /\ queryToTimingsMap # <<>>
    /\ currentTiming.query # <<>>
    /\ currentTiming.connectionId = Num(7)
    /\ currentTiming.unixTimestamp = Undefined

============================================================================
